---- MODULE Spec2Model ----
(***************************************************************************)
(* Quotemaker (quotemaker.py): a Markov-chain quote generator, an image    *)
(* fetcher with retries, a CSV quote lookup and a line splitter.           *)
(*                                                                         *)
(* Four specifications share the variables below:                          *)
(*   Spec       the __main__ run: generate_model, then create_quote_image  *)
(*              (get_image, get_ai_quote, block_quote);                    *)
(*   SpecImage  get_image and its recursive retries, frame by frame;       *)
(*   SpecQuote  get_quote;                                                 *)
(*   SpecBlock  block_quote on character sequences.                        *)
(*                                                                         *)
(* quotemaker.py delegates the chain to the markovify library              *)
(* (markovify.Text, to_json, from_json, make_short_sentence).  The library *)
(* is not part of the source file; the definitions that stand for it       *)
(* follow the chain builder, serializer and walk of the specification      *)
(* (sections 4.1 to 4.3), and markovify's behaviour where the source       *)
(* relies on it (a retry budget that ends in None, the overlap test).      *)
(***************************************************************************)
EXTENDS Integers, Sequences, FiniteSets, TLC

VARIABLES
    pc,              \* position of the run
    error,           \* the exception that ended the run, "" when none
    sents,           \* quotes.txt as the NLP's sentences: each a word list
    model_json,      \* the file model.json
    text_model,      \* generate_model's text_model, <<>> before it is built
    quote_generator, \* get_ai_quote's quote_generator, <<>> before loading
    max_chars,       \* the max_chars argument of get_ai_quote
    tries,           \* make_short_sentence's loop index
    inner_tries,     \* make_sentence's loop index
    words,           \* the walk whose sentence get_ai_quote returned
    quote,           \* what get_ai_quote returned
    stack,           \* get_image's call stack, innermost frame last
    requests,        \* the responses of the requests issued, in order
    image_bytes,     \* what the outermost get_image returned
    quotes_csv,      \* the rows of quotes_all.csv
    quotes,          \* get_quote's quotes list
    index,           \* get_quote's random index
    quote_row,       \* what get_quote returned
    bq_quote,        \* block_quote's quote, a sequence of characters
    line_length,     \* block_quote's line_length
    lines            \* block_quote's result

vars == <<pc, error, sents, model_json, text_model, quote_generator, max_chars,
          tries, inner_tries, words, quote, stack, requests, image_bytes,
          quotes_csv, quotes, index, quote_row, bq_quote, line_length, lines>>

markovVars == <<sents, model_json, text_model, quote_generator, max_chars,
                tries, inner_tries, words, quote>>
imageVars == <<stack, requests, image_bytes>>
quoteVars == <<quotes_csv, quotes, index, quote_row>>
blockVars == <<bq_quote, line_length, lines>>

(***************************************************************************)
(* Bounds of the model.                                                    *)
(***************************************************************************)
MaxSents == 2        \* sentences in quotes.txt
MaxSentLen == 4      \* words in a sentence of quotes.txt
MaxWalkLen == 6      \* words of a walk; longer walks are not explored

(***************************************************************************)
(* Python values.                                                          *)
(***************************************************************************)
PyNone == [type |-> "NoneType"]
PyStr(s) == [type |-> "str", s |-> s]

\* A Python dict keeps insertion order: a sequence of [key, val] entries.
DictHas(d, k) == \E i \in 1..Len(d) : d[i].key = k
DictGet(d, k) == d[CHOOSE i \in 1..Len(d) : d[i].key = k].val
DictSet(d, k, v) ==
    IF DictHas(d, k)
    THEN [i \in 1..Len(d) |-> IF d[i].key = k THEN [key |-> k, val |-> v] ELSE d[i]]
    ELSE Append(d, [key |-> k, val |-> v])
DictKeys(d) == {d[i].key : i \in 1..Len(d)}

\* " ".join(ws)
RECURSIVE word_join(_)
word_join(ws) ==
    IF ws = <<>> THEN ""
    ELSE IF Len(ws) = 1 THEN ws[1]
    ELSE ws[1] \o " " \o word_join(Tail(ws))

(***************************************************************************)
(* The words of the corpus.  Wa is 20 characters long and Wb one, so that  *)
(* a handful of words spans the sampler's 100 characters.                  *)
(***************************************************************************)
Wa == "aaaaaaaaaaaaaaaaaaaa"
Wb == "b"
Words == {Wa, Wb}
BEGIN == "___BEGIN__"
END == "___END__"

RECURSIVE SeqsUpTo(_, _)
SeqsUpTo(S, n) ==
    IF n = 0 THEN {<<>>}
    ELSE LET shorter == SeqsUpTo(S, n - 1)
         IN shorter \cup {Append(s, x) : s \in {t \in shorter : Len(t) = n - 1}, x \in S}

Sentences == SeqsUpTo(Words, MaxSentLen)
Corpora == SeqsUpTo(Sentences, MaxSents)

(***************************************************************************)
(* generate_model, lines 79-81: the sentences whose text is longer than    *)
(* one character.  markovify.Text then splits the joined text again into   *)
(* sentences and words; the model takes that split to give the same        *)
(* sentences back.                                                         *)
(***************************************************************************)
RECURSIVE quotes_sents(_)
quotes_sents(ss) ==
    IF ss = <<>> THEN <<>>
    ELSE IF Len(word_join(Head(ss))) > 1
         THEN <<Head(ss)>> \o quotes_sents(Tail(ss))
         ELSE quotes_sents(Tail(ss))

(***************************************************************************)
(* The chain builder (markovify.Chain.build; specification 4.1).           *)
(***************************************************************************)
state_size == 3

begin_state == [j \in 1..state_size |-> BEGIN]

Items(run) == begin_state \o run \o <<END>>

AddFollow(model, state, follow) ==
    LET inner == IF DictHas(model, state) THEN DictGet(model, state) ELSE <<>>
        c == IF DictHas(inner, follow) THEN DictGet(inner, follow) ELSE 0
    IN DictSet(model, state, DictSet(inner, follow, c + 1))

RECURSIVE BuildRun(_, _, _)
BuildRun(model, items, i) ==
    IF i + state_size + 1 > Len(items) THEN model
    ELSE BuildRun(AddFollow(model,
                            SubSeq(items, i + 1, i + state_size),
                            items[i + state_size + 1]),
                  items, i + 1)

RECURSIVE BuildFrom(_, _)
BuildFrom(model, corpus) ==
    IF corpus = <<>> THEN model
    ELSE BuildFrom(BuildRun(model, Items(Head(corpus)), 0), Tail(corpus))

ChainBuild(corpus) == BuildFrom(<<>>, corpus)

\* markovify.Text(text, state_size=3): the sentences and their chain.
\* An empty chain has no begin state: the constructor raises KeyError.
TextBuilds(corpus) == DictHas(ChainBuild(corpus), begin_state)
TextBuild(corpus) ==
    [state_size |-> state_size,
     chain |-> ChainBuild(corpus),
     parsed_sentences |-> corpus]

(***************************************************************************)
(* The serializer (Text.to_json / Text.from_json around Chain.to_json /    *)
(* Chain.from_json; specification 4.2).  A JSON array is a sequence, a     *)
(* JSON object a sequence of <<name, value>> members.                      *)
(***************************************************************************)
ObjOfDict(d) == [i \in 1..Len(d) |-> <<d[i].key, d[i].val>>]

RECURSIVE DictOfObjFrom(_, _)
DictOfObjFrom(d, members) ==
    IF members = <<>> THEN d
    ELSE DictOfObjFrom(DictSet(d, Head(members)[1], Head(members)[2]), Tail(members))

DictOfObj(members) == DictOfObjFrom(<<>>, members)

\* json.dumps(list(self.model.items()))
ChainToJson(chain) == [i \in 1..Len(chain) |-> <<chain[i].key, ObjOfDict(chain[i].val)>>]

\* dict((tuple(item[0]), item[1]) for item in obj)
RECURSIVE ChainFromJsonFrom(_, _)
ChainFromJsonFrom(d, obj) ==
    IF obj = <<>> THEN d
    ELSE ChainFromJsonFrom(DictSet(d, Head(obj)[1], DictOfObj(Head(obj)[2])), Tail(obj))

ChainFromJson(obj) == ChainFromJsonFrom(<<>>, obj)

TextToJson(m) ==
    <<  <<"state_size", m.state_size>>,
        <<"chain", ChainToJson(m.chain)>>,
        <<"parsed_sentences", m.parsed_sentences>>  >>

TextFromJson(doc) ==
    LET obj == DictOfObj(doc)
    IN [state_size |-> DictGet(obj, "state_size"),
        chain |-> ChainFromJson(DictGet(obj, "chain")),
        parsed_sentences |-> DictGet(obj, "parsed_sentences")]

\* The file model.json: absent, or present with a text that is empty (opened
\* for writing and never written) or one JSON document.
FileAbsent == [exists |-> FALSE, text |-> <<>>]
FileEmpty == [exists |-> TRUE, text |-> <<>>]
FileWith(doc) == [exists |-> TRUE, text |-> <<doc>>]

(***************************************************************************)
(* The sampler (markovify's Chain.gen, Text.make_sentence and              *)
(* Text.make_short_sentence; specification 4.3).                           *)
(***************************************************************************)
DEFAULT_TRIES == 10
DEFAULT_MAX_OVERLAP_TOTAL == 15
MaxCharsDefault == 100
MakeShortSentenceMaxChars == 100
OtherMaxChars == 50

\* The values a caller of get_ai_quote passes: the default, as
\* create_quote_image does, or a tighter limit.
MaxCharsChoices == {MaxCharsDefault, OtherMaxChars}

\* Chain.move: a follower drawn with probability proportional to its count.
ChainMove(chain, state) ==
    LET follows == DictGet(chain, state)
    IN {follows[i].key : i \in {j \in 1..Len(follows) : follows[j].val >= 1}}

\* Chain.gen / Chain.walk: the walks from `state` that reach END, `ws` being
\* the words emitted so far.
RECURSIVE WalksFrom(_, _, _)
WalksFrom(chain, state, ws) ==
    UNION { IF next = END THEN {ws}
            ELSE IF Len(ws) >= MaxWalkLen THEN {}
            ELSE WalksFrom(chain, Tail(state) \o <<next>>, Append(ws, next))
            : next \in ChainMove(chain, state) }

Walks(chain) == WalksFrom(chain, begin_state, <<>>)

\* Python's round(0.7 * n): halves go to the even neighbour.
RoundOverlap(n) ==
    LET q == (7 * n) \div 10
        r == (7 * n) % 10
    IN IF r < 5 THEN q
       ELSE IF r > 5 THEN q + 1
       ELSE IF q % 2 = 0 THEN q ELSE q + 1

Min(a, b) == IF a < b THEN a ELSE b
Max(a, b) == IF a > b THEN a ELSE b

RECURSIVE Flatten(_)
Flatten(ss) == IF ss = <<>> THEN <<>> ELSE Head(ss) \o Flatten(Tail(ss))

\* gram_joined in self.rejoined_text, word by word: no word of Words occurs
\* inside another, so a joined gram occurs in the joined text exactly where
\* its words occur in a row.
Occurs(gram, text) ==
    \E i \in 0..(Len(text) - Len(gram)) : SubSeq(text, i + 1, i + Len(gram)) = gram

\* Text.test_sentence_output: FALSE when the walk overlaps the corpus too much.
test_sentence_output(m, ws) ==
    LET overlap_max == Min(DEFAULT_MAX_OVERLAP_TOTAL, RoundOverlap(Len(ws)))
        overlap_over == overlap_max + 1
        gram_count == Max(Len(ws) - overlap_max, 1)
        rejoined == Flatten(m.parsed_sentences)
    IN \A i \in 0..(gram_count - 1) :
          ~Occurs(SubSeq(ws, i + 1, Min(i + overlap_over, Len(ws))), rejoined)

\* make_short_sentence's test of a sentence make_sentence returned.
ShortEnough(sentence, limit) == sentence # "" /\ 0 <= Len(sentence) /\ Len(sentence) <= limit

(***************************************************************************)
(* Spec: the run of __main__.                                              *)
(***************************************************************************)
\* The file quotes_all.csv: absent, or its rows.
CsvAbsent == [exists |-> FALSE, rows |-> <<>>]
CsvWith(rows) == [exists |-> TRUE, rows |-> rows]

\* The variables of the other specifications, at rest.
ImageIdle == stack = <<>> /\ requests = <<>> /\ image_bytes = PyNone
QuoteIdle == quotes_csv = CsvAbsent /\ quotes = <<>> /\ index = 0 /\ quote_row = PyNone
BlockIdle == bq_quote = <<>> /\ line_length = 1 /\ lines = <<>>
MarkovIdle ==
    /\ sents = <<>>
    /\ model_json = FileAbsent
    /\ text_model = <<>>
    /\ quote_generator = <<>>
    /\ max_chars = MaxCharsDefault
    /\ tries = 0
    /\ inner_tries = 0
    /\ words = <<>>
    /\ quote = PyNone

Init ==
    /\ pc = "main"
    /\ error = ""
    /\ sents \in Corpora
    /\ model_json = FileAbsent
    /\ text_model = <<>>
    /\ quote_generator = <<>>
    /\ max_chars = MaxCharsDefault
    /\ tries = 0
    /\ inner_tries = 0
    /\ words = <<>>
    /\ quote = PyNone
    /\ ImageIdle /\ QuoteIdle /\ BlockIdle

\* Lines 254-262: generate the model when model.json cannot be opened; the
\* finally clause runs create_quote_image in every case.
Main ==
    /\ pc = "main"
    /\ pc' = IF model_json.exists THEN "create_quote_image" ELSE "generate_model"
    /\ UNCHANGED <<error, markovVars, imageVars, quoteVars, blockVars>>

\* generate_model without the len(sent.text) > 1 test of line 80: every
\* sentence of quotes.txt goes into the chain.
GenerateModelUnfiltered ==
    /\ pc = "generate_model"
    /\ IF TextBuilds(sents)
       THEN /\ text_model' = <<TextBuild(sents)>>
            /\ model_json' = FileWith(TextToJson(TextBuild(sents)))
            /\ error' = error
       ELSE /\ text_model' = <<>>
            /\ model_json' = FileEmpty
            /\ error' = "KeyError"
    /\ pc' = "finally"
    /\ UNCHANGED <<sents, quote_generator, max_chars, tries, inner_tries, words,
                   quote, imageVars, quoteVars, blockVars>>

\* generate_model: model.json is opened for writing, and so created or
\* emptied, before the model is built; the text is written after.  When the
\* build raises, the exception leaves the function with the file empty, and
\* the finally clause of __main__ still runs.
GenerateModel ==
    /\ pc = "generate_model"
    /\ LET corpus == quotes_sents(sents)
       IN IF TextBuilds(corpus)
          THEN /\ text_model' = <<TextBuild(corpus)>>
               /\ model_json' = FileWith(TextToJson(TextBuild(corpus)))
               /\ error' = error
          ELSE /\ text_model' = <<>>
               /\ model_json' = FileEmpty
               /\ error' = "KeyError"
    /\ pc' = "finally"
    /\ UNCHANGED <<sents, quote_generator, max_chars, tries, inner_tries, words,
                   quote, imageVars, quoteVars, blockVars>>

Finally ==
    /\ pc = "finally"
    /\ pc' = "create_quote_image"
    /\ UNCHANGED <<error, markovVars, imageVars, quoteVars, blockVars>>

\* create_quote_image, line 230: get_image returns, or gives up with quit().
\* SpecImage follows get_image itself.
CallGetImage ==
    /\ pc = "create_quote_image"
    /\ \E returns \in BOOLEAN :
          IF returns
          THEN pc' = "get_ai_quote" /\ error' = error
          ELSE pc' = "exited" /\ error' = "SystemExit"
    /\ UNCHANGED <<markovVars, imageVars, quoteVars, blockVars>>

\* get_ai_quote rebuilding the generator around the stored chain alone, with
\* markovify.Text's default order of 2 in place of the stored one.
LoadModelDefaultOrder ==
    /\ pc = "get_ai_quote"
    /\ \E mc \in MaxCharsChoices : max_chars' = mc
    /\ IF ~model_json.exists
       THEN pc' = "exited" /\ error' = "SystemExit" /\ quote_generator' = quote_generator
       ELSE IF model_json.text = <<>>
       THEN pc' = "crashed" /\ error' = "JSONDecodeError"
            /\ quote_generator' = quote_generator
       ELSE pc' = "make_short_sentence" /\ error' = error
            /\ quote_generator' =
                  <<[TextFromJson(model_json.text[1]) EXCEPT !.state_size = 2]>>
    /\ tries' = 0
    /\ inner_tries' = 0
    /\ UNCHANGED <<sents, model_json, text_model, words, quote,
                   imageVars, quoteVars, blockVars>>

\* get_ai_quote, lines 98-107: read model.json and rebuild the generator.
LoadModel ==
    /\ pc = "get_ai_quote"
    /\ \E mc \in MaxCharsChoices : max_chars' = mc
    /\ IF ~model_json.exists
       THEN pc' = "exited" /\ error' = "SystemExit" /\ quote_generator' = quote_generator
       ELSE IF model_json.text = <<>>
       THEN pc' = "crashed" /\ error' = "JSONDecodeError"
            /\ quote_generator' = quote_generator
       ELSE pc' = "make_short_sentence" /\ error' = error
            /\ quote_generator' = <<TextFromJson(model_json.text[1])>>
    /\ tries' = 0
    /\ inner_tries' = 0
    /\ UNCHANGED <<sents, model_json, text_model, words, quote,
                   imageVars, quoteVars, blockVars>>

\* The end of one try of make_short_sentence that returned nothing: the next
\* try, or None when the tries are used up.
NextTry ==
    /\ tries' = tries + 1
    /\ inner_tries' = 0
    /\ IF tries + 1 >= DEFAULT_TRIES
       THEN quote' = PyNone /\ pc' = "block_quote"
       ELSE quote' = quote /\ pc' = pc

\* The longest run of leading words of `ws` whose text fits `limit`.
RECURSIVE PrefixFitting(_, _)
PrefixFitting(ws, limit) ==
    IF ws = <<>> \/ Len(word_join(ws)) <= limit THEN ws
    ELSE PrefixFitting(SubSeq(ws, 1, Len(ws) - 1), limit)

\* get_ai_quote cutting the sentence down to the requested max_chars in
\* place of leaving the limit to make_short_sentence.
AttemptTruncating ==
    /\ pc = "make_short_sentence"
    /\ \E ws \in Walks(quote_generator[1].chain) :
          IF test_sentence_output(quote_generator[1], ws)
          THEN /\ quote' = PyStr(word_join(PrefixFitting(ws, max_chars)))
               /\ words' = PrefixFitting(ws, max_chars)
               /\ pc' = "block_quote"
               /\ UNCHANGED <<tries, inner_tries>>
          ELSE IF inner_tries + 1 >= DEFAULT_TRIES
               THEN NextTry /\ words' = words
               ELSE /\ inner_tries' = inner_tries + 1
                    /\ UNCHANGED <<tries, quote, pc, words>>
    /\ UNCHANGED <<error, sents, model_json, text_model, quote_generator, max_chars,
                   imageVars, quoteVars, blockVars>>

\* get_ai_quote, line 109: one walk of make_short_sentence(max_chars=100).
\* make_sentence walks the chain up to DEFAULT_TRIES times and returns the
\* first walk that passes test_sentence_output, or None; make_short_sentence
\* calls it up to DEFAULT_TRIES times and returns the first sentence that is
\* short enough, or None.
Attempt ==
    /\ pc = "make_short_sentence"
    /\ \E ws \in Walks(quote_generator[1].chain) :
          IF test_sentence_output(quote_generator[1], ws)
          THEN IF ShortEnough(word_join(ws), MakeShortSentenceMaxChars)
               THEN /\ quote' = PyStr(word_join(ws))
                    /\ words' = ws
                    /\ pc' = "block_quote"
                    /\ UNCHANGED <<tries, inner_tries>>
               ELSE NextTry /\ words' = words
          ELSE IF inner_tries + 1 >= DEFAULT_TRIES
               THEN NextTry /\ words' = words
               ELSE /\ inner_tries' = inner_tries + 1
                    /\ UNCHANGED <<tries, quote, pc, words>>
    /\ UNCHANGED <<error, sents, model_json, text_model, quote_generator, max_chars,
                   imageVars, quoteVars, blockVars>>

\* create_quote_image, line 233: block_quote(quote, 35) starts with
\* quote.split(" "), which None does not have.
CallBlockQuote ==
    /\ pc = "block_quote"
    /\ IF quote = PyNone
       THEN pc' = "crashed" /\ error' = "AttributeError"
       ELSE pc' = "done" /\ error' = error
    /\ UNCHANGED <<markovVars, imageVars, quoteVars, blockVars>>

\* The program is run again: model.json and quotes.txt stay as they are.
Rerun ==
    /\ pc \in {"done", "crashed", "exited"}
    /\ pc' = "main"
    /\ error' = ""
    /\ text_model' = <<>>
    /\ quote_generator' = <<>>
    /\ max_chars' = MaxCharsDefault
    /\ tries' = 0
    /\ inner_tries' = 0
    /\ words' = <<>>
    /\ quote' = PyNone
    /\ UNCHANGED <<sents, model_json, imageVars, quoteVars, blockVars>>

Next ==
    \/ Main
    \/ GenerateModel
    \/ Finally
    \/ CallGetImage
    \/ LoadModel
    \/ Attempt
    \/ CallBlockQuote
    \/ Rerun

Spec == Init /\ [][Next]_vars

(***************************************************************************)
(* Properties of the run of __main__ (Spec).                               *)
(***************************************************************************)
Tokens == Words \cup {BEGIN, END}

\* Every state_size-tuple of tokens.
RECURSIVE TuplesOf(_, _)
TuplesOf(S, n) ==
    IF n = 0 THEN {<<>>}
    ELSE {Append(t, x) : t \in TuplesOf(S, n - 1), x \in S}

AllStates == TuplesOf(Tokens, state_size)

\* The count a chain holds for (state -> next), 0 when it holds none.
ChainCount(chain, state, next) ==
    IF DictHas(chain, state) /\ DictHas(DictGet(chain, state), next)
    THEN DictGet(DictGet(chain, state), next)
    ELSE 0

\* The number of positions of the padded sentences of `corpus` at which the
\* window `state` is immediately followed by `next`.
Occurrences(corpus, state, next) ==
    Cardinality({ p \in { <<n, i>> : n \in 1..Len(corpus), i \in 0..MaxSentLen } :
                    LET items == Items(corpus[p[1]])
                    IN /\ p[2] + state_size + 1 <= Len(items)
                       /\ SubSeq(items, p[2] + 1, p[2] + state_size) = state
                       /\ items[p[2] + state_size + 1] = next })

NoDuplicateKeys(d) == \A i, j \in 1..Len(d) : d[i].key = d[j].key => i = j

Returned == pc \in {"block_quote", "done"} /\ quote.type = "str"

\* C1: a sentence get_ai_quote returns is at most as long as the max_chars
\* its caller asked for.
C1_SentenceWithinRequestedMaxChars ==
    Returned => Len(quote.s) <= max_chars

\* C2: the sampler never hands back None (or another stand-in) for a
\* sentence: what create_quote_image passes to block_quote is a string, and
\* a used-up retry budget ends in NoSentenceFound.
C2_RendererGetsAString ==
    /\ pc = "block_quote" => quote.type = "str"
    /\ tries >= DEFAULT_TRIES => error = "NoSentenceFound"

\* C3: a returned sentence is the words of a walk that starts at the begin
\* state, follows only transitions the chain holds with count >= 1, and ends
\* with a transition to END the chain holds: it is never a walk cut short.
C3_ReturnedSentenceIsACompleteWalk ==
    Returned =>
        LET chain == quote_generator[1].chain
            items == Items(words)
        IN /\ quote.s = word_join(words)
           /\ \A i \in 0..Len(words) :
                 ChainCount(chain, SubSeq(items, i + 1, i + state_size),
                            items[i + state_size + 1]) >= 1

C3_Witness ==
    /\ pc = "done"
    /\ quote.type = "str"
    /\ Len(words) >= 5

\* C4: the model read back from model.json has the order, the states and the
\* counts of the model generate_model built, no state more and none less.
C4_RoundTrip ==
    (text_model # <<>> /\ quote_generator # <<>>) =>
        LET built == text_model[1]
            loaded == quote_generator[1]
        IN /\ loaded.state_size = built.state_size
           /\ DictKeys(loaded.chain) = DictKeys(built.chain)
           /\ Len(loaded.chain) = Len(built.chain)
           /\ \A state \in DictKeys(built.chain) : \A next \in Tokens :
                 ChainCount(loaded.chain, state, next) = ChainCount(built.chain, state, next)
           /\ \A i \in 1..Len(loaded.chain) :
                 \A j \in 1..Len(loaded.chain[i].val) :
                    loaded.chain[i].val[j].key \in Tokens

C4_Witness ==
    /\ pc = "make_short_sentence"
    /\ text_model # <<>>
    /\ Len(quote_generator[1].chain) >= 8
    /\ \E state \in DictKeys(quote_generator[1].chain) :
          ChainCount(quote_generator[1].chain, state, END) >= 2

\* C5: building from a corpus with no usable sentence fails with
\* EmptyCorpus, and leaves no model behind, in memory or in model.json.
C5_EmptyCorpusFailsCleanly ==
    (pc = "finally" /\ quotes_sents(sents) = <<>>) =>
        /\ error = "EmptyCorpus"
        /\ text_model = <<>>
        /\ ~model_json.exists

RetryLimit == 3
OK == 200
StatusCodes == {OK, 404, 503}

NoResponse == [status_code |-> 0, content |-> PyNone]

\* The response to the n-th request: its body is its own.
Response(n, status) == [status_code |-> status, content |-> [body_of_request |-> n]]

Frame(count) == [count |-> count, at |-> "request", response |-> NoResponse]

Top == stack[Len(stack)]
SetTop(f) == [stack EXCEPT ![Len(stack)] = f]

InitImage ==
    /\ pc = "get_image"
    /\ error = ""
    /\ stack = <<Frame(0)>>
    /\ requests = <<>>
    /\ image_bytes = PyNone
    /\ MarkovIdle /\ QuoteIdle /\ BlockIdle

\* Line 56: response = requests.get(...)
Request ==
    /\ pc = "get_image"
    /\ Top.at = "request"
    /\ \E status \in StatusCodes :
          LET r == Response(Len(requests) + 1, status)
          IN /\ requests' = Append(requests, r)
             /\ stack' = SetTop([Top EXCEPT !.at = "check", !.response = r])
    /\ UNCHANGED <<pc, error, image_bytes, markovVars, quoteVars, blockVars>>

\* Lines 58, 69: the status is 200, nothing to retry.
StatusOk ==
    /\ pc = "get_image"
    /\ Top.at = "check"
    /\ Top.response.status_code = OK
    /\ stack' = SetTop([Top EXCEPT !.at = "return"])
    /\ UNCHANGED <<pc, error, requests, image_bytes, markovVars, quoteVars, blockVars>>

\* Lines 58-65: the request failed and count <= 3: call get_image again.  The
\* caller waits at line 65 and does nothing with what the call returns.
Retry ==
    /\ pc = "get_image"
    /\ Top.at = "check"
    /\ Top.response.status_code # OK
    /\ Top.count <= RetryLimit
    /\ stack' = Append(SetTop([Top EXCEPT !.at = "return"]), Frame(Top.count + 1))
    /\ UNCHANGED <<pc, error, requests, image_bytes, markovVars, quoteVars, blockVars>>

\* Lines 66-68: the request failed and count > 3: quit() ends the process.
GiveUp ==
    /\ pc = "get_image"
    /\ Top.at = "check"
    /\ Top.response.status_code # OK
    /\ Top.count > RetryLimit
    /\ pc' = "exited"
    /\ error' = "SystemExit"
    /\ stack' = <<>>
    /\ UNCHANGED <<requests, image_bytes, markovVars, quoteVars, blockVars>>

\* Line 69: return response.content, the content of this frame's response.
Return ==
    /\ pc = "get_image"
    /\ Top.at = "return"
    /\ stack' = SubSeq(stack, 1, Len(stack) - 1)
    /\ IF Len(stack) = 1
       THEN pc' = "returned" /\ image_bytes' = Top.response.content
       ELSE pc' = pc /\ image_bytes' = image_bytes
    /\ UNCHANGED <<error, requests, markovVars, quoteVars, blockVars>>

NextImage ==
    \/ Request
    \/ StatusOk
    \/ Retry
    \/ GiveUp
    \/ Return

SpecImage == InitImage /\ [][NextImage]_vars

\* C8: when get_image returns, it returns the body of a response whose
\* status was 200: after a failed first request, the body of the retry that
\* succeeded.
C8_ReturnsBodyOfASuccessfulResponse ==
    pc = "returned" =>
        \E n \in 1..Len(requests) :
           /\ requests[n].status_code = OK
           /\ image_bytes = requests[n].content

\* C9: when every request fails, get_image issues the first request and 3
\* retries, 4 requests in all, and then aborts the process.
C9_FourRequestsThenAbort ==
    /\ Len(requests) <= RetryLimit + 1
    /\ pc = "exited" => Len(requests) = RetryLimit + 1

(***************************************************************************)
(* SpecQuote: get_quote.                                                   *)
(***************************************************************************)
MaxRows == 5
RowValues == {"row_x", "row_y"}
HeaderRows == 2

InitQuote ==
    /\ pc = "get_quote"
    /\ error = ""
    /\ quotes_csv \in {CsvAbsent} \cup {CsvWith(rows) : rows \in SeqsUpTo(RowValues, MaxRows)}
    /\ quotes = <<>>
    /\ index = 0
    /\ quote_row = PyNone
    /\ MarkovIdle /\ ImageIdle /\ BlockIdle

\* Lines 118-123: the rows of the file from the third on; quit() without it.
ReadQuotes ==
    /\ pc = "get_quote"
    /\ IF quotes_csv.exists
       THEN /\ quotes' = SubSeq(quotes_csv.rows, HeaderRows + 1, Len(quotes_csv.rows))
            /\ pc' = "randint"
            /\ error' = error
       ELSE /\ quotes' = quotes
            /\ pc' = "exited"
            /\ error' = "SystemExit"
    /\ UNCHANGED <<quotes_csv, index, quote_row, markovVars, imageVars, blockVars>>

\* Line 125: random.randint(0, len(quotes)), both ends included.
RandomIndex ==
    /\ pc = "randint"
    /\ index' \in 0..Len(quotes)
    /\ pc' = "subscript"
    /\ UNCHANGED <<error, quotes_csv, quotes, quote_row, markovVars, imageVars, blockVars>>

\* Line 126: return quotes[index]; IndexError past the end of the list.
ReturnQuote ==
    /\ pc = "subscript"
    /\ IF index < Len(quotes)
       THEN /\ quote_row' = PyStr(quotes[index + 1])
            /\ pc' = "returned"
            /\ error' = error
       ELSE /\ quote_row' = quote_row
            /\ pc' = "crashed"
            /\ error' = "IndexError"
    /\ UNCHANGED <<quotes_csv, quotes, index, markovVars, imageVars, blockVars>>

NextQuote ==
    \/ ReadQuotes
    \/ RandomIndex
    \/ ReturnQuote

SpecQuote == InitQuote /\ [][NextQuote]_vars

\* C7: when quotes_all.csv is read, the index get_quote draws is an index of
\* the rows left after the first two, and get_quote returns that row.
C7_IndexIsValid ==
    /\ pc = "subscript" => index < Len(quotes)
    /\ (quotes_csv.exists /\ pc \notin {"get_quote", "randint", "subscript"}) =>
          /\ pc = "returned"
          /\ \E n \in (HeaderRows + 1)..Len(quotes_csv.rows) :
                quote_row = PyStr(quotes_csv.rows[n])

(***************************************************************************)
(* SpecBlock: block_quote(quote, line_length).  A string is the sequence   *)
(* of its characters.                                                      *)
(***************************************************************************)
MaxQuoteLen == 6
MaxLineLength == 4
Chars == {"a", " "}

\* quote.split(" "): the pieces between single spaces, empty ones included.
RECURSIVE SplitFrom(_, _, _)
SplitFrom(s, piece, pieces) ==
    IF s = <<>> THEN Append(pieces, piece)
    ELSE IF Head(s) = " " THEN SplitFrom(Tail(s), <<>>, Append(pieces, piece))
    ELSE SplitFrom(Tail(s), Append(piece, Head(s)), pieces)

Split(s) == SplitFrom(s, <<>>, <<>>)

\* Lines 143-151: the loop over word_list, from index i (counted from 0).
RECURSIVE BlockLoop(_, _, _, _, _)
BlockLoop(word_list, n, i, buffer, out) ==
    IF i >= Len(word_list) THEN out
    ELSE LET word == word_list[i + 1]
         IN IF i + 1 = Len(word_list)
            THEN BlockLoop(word_list, n, i + 1, buffer \o word, Append(out, buffer \o word))
            ELSE IF Len(buffer) + Len(word) < n
            THEN BlockLoop(word_list, n, i + 1, buffer \o word \o <<" ">>, out)
            ELSE BlockLoop(word_list, n, i + 1, word \o <<" ">>, Append(out, buffer))

block_quote(q, n) == BlockLoop(Split(q), n, 0, <<>>, <<>>)

InitBlock ==
    /\ pc = "block_quote"
    /\ error = ""
    /\ bq_quote \in SeqsUpTo(Chars, MaxQuoteLen)
    /\ line_length \in 1..MaxLineLength
    /\ lines = <<>>
    /\ MarkovIdle /\ ImageIdle /\ QuoteIdle

BlockQuote ==
    /\ pc = "block_quote"
    /\ lines' = block_quote(bq_quote, line_length)
    /\ pc' = "returned"
    /\ UNCHANGED <<error, bq_quote, line_length, markovVars, imageVars, quoteVars>>

NextBlock == BlockQuote

SpecBlock == InitBlock /\ [][NextBlock]_vars

\* C10: every line block_quote returns has at most line_length characters,
\* the last line and a line that starts with an over-long word included, and
\* no line is empty when the quote is not.
C10_LinesFitLineLength ==
    pc = "returned" =>
        \A k \in 1..Len(lines) :
           /\ Len(lines[k]) <= line_length
           /\ bq_quote # <<>> => lines[k] # <<>>

====
